---- MODULE Spec2Model ----
(***************************************************************************)
(* A model of the Storj Uplink Rust bindings: the Permission time window,  *)
(* SharePrefix construction, the Access Grant constructors with the guard  *)
(* (Ensurer) they apply to the results of the foreign backend, the methods *)
(* and the Drop of an Access, the Config constructors, the label of an     *)
(* Uplink error and Bucket::from_uplink_c.                                 *)
(*                                                                         *)
(* The types share no state, so each has its own specification over the    *)
(* same variables: SpecPermission, SpecSharePrefix, SpecAccess, SpecGrant, *)
(* SpecConfig, SpecError and SpecRelease.                                  *)
(***************************************************************************)
EXTENDS Integers, Sequences, FiniteSets, TLC

VARIABLES
    perm,       \* the Permission value the client owns (`let mut perm`)
    ret,        \* the last call: its name, its arguments and what it returned
    panicked,   \* TRUE once an assert! of the crate has failed
    grants,     \* the Access values the client owns (alive, not yet dropped)
    heap,       \* the results the backend has handed over: heap[id] is the
                \* kind of result id and how many times it was freed
    buckets     \* the Bucket values the crate owns (alive, not yet dropped)

vars == <<perm, ret, panicked, grants, heap, buckets>>

----------------------------------------------------------------------------
(* Bounds of the model *)

\* Durations have 0..MaxSecs whole seconds
MaxSecs == 1
\* and 0..MaxNanos nanoseconds on top of them.
MaxNanos == 1
\* The bucket and prefix strings of SharePrefix::new have at most MaxLen bytes.
MaxLen == 2
\* The text arguments of the Access constructors have at most MaxArgLen bytes.
MaxArgLen == 1
\* The backend hands over at most MaxAllocs results in a run.
MaxAllocs == 3

----------------------------------------------------------------------------
(* Option<T>, Result<T, Error> and a failed assert! *)

None == <<>>
Some(x) == <<x>>
is_some(o) == o # <<>>
unwrap(o) == o[1]

Ok(v) == [tag |-> "Ok", val |-> v]
Err(e) == [tag |-> "Err", err |-> e]
Panic(m) == [tag |-> "Panic", msg |-> m]
Unit == "()"

\* Error::new_invalid_arguments -> Error::InvalidArguments(Args::new(names, msg))
new_invalid_arguments(names, msg) ==
    [kind |-> "InvalidArguments", names |-> names, msg |-> msg]

----------------------------------------------------------------------------
(* std::time::Duration: whole seconds and nanoseconds, ordered by seconds  *)
(* first and nanoseconds second.                                           *)

Duration_new(secs, nanos) == [secs |-> secs, nanos |-> nanos]
Durations == {Duration_new(s, n) : s \in 0..MaxSecs, n \in 0..MaxNanos}
OptDurations == {None} \cup {Some(d) : d \in Durations}

Duration_lt(a, b) ==
    \/ a.secs < b.secs
    \/ a.secs = b.secs /\ a.nanos < b.nanos
Duration_ge(a, b) == ~Duration_lt(a, b)
Duration_le(a, b) == ~Duration_lt(b, a)

----------------------------------------------------------------------------
(* Permission *)

Permission_default ==
    [allow_download |-> FALSE, allow_upload |-> FALSE,
     allow_list |-> FALSE, allow_delete |-> FALSE,
     not_before |-> None, not_after |-> None]

Permission_new == Permission_default

Permission_full ==
    [allow_download |-> TRUE, allow_upload |-> TRUE,
     allow_list |-> TRUE, allow_delete |-> TRUE,
     not_before |-> None, not_after |-> None]

\* read_only with allow_upload left on
read_only_with_upload ==
    [allow_download |-> TRUE, allow_upload |-> TRUE,
     allow_list |-> TRUE, allow_delete |-> FALSE,
     not_before |-> None, not_after |-> None]

Permission_read_only ==
    [allow_download |-> TRUE, allow_upload |-> FALSE,
     allow_list |-> TRUE, allow_delete |-> FALSE,
     not_before |-> None, not_after |-> None]

Permission_write_only ==
    [allow_download |-> FALSE, allow_upload |-> TRUE,
     allow_list |-> FALSE, allow_delete |-> TRUE,
     not_before |-> None, not_after |-> None]

Permission_not_before(self) == self.not_before
Permission_not_after(self) == self.not_after

SinceMsg == "cannot be more recent or equal to the not after valid time of the permission"
UntilMsg == "cannot be previous or equal to the not before valid time of the permission"

\* Variants of the setters, each with one slip, that the properties below
\* must tell apart from the setters themselves.
\* set_not_before comparing with > where the source has >=
set_not_before_gt(self, since) ==
    IF /\ is_some(since)
       /\ is_some(self.not_after)
       /\ Duration_lt(unwrap(self.not_after), unwrap(since))
    THEN [self |-> self,
          result |-> Err(new_invalid_arguments("since", SinceMsg))]
    ELSE [self |-> [self EXCEPT !.not_before = since],
          result |-> Ok(Unit)]

\* set_not_before assigning the field before it checks the order
set_not_before_assign_first(self, since) ==
    IF /\ is_some(since)
       /\ is_some(self.not_after)
       /\ Duration_ge(unwrap(since), unwrap(self.not_after))
    THEN [self |-> [self EXCEPT !.not_before = since],
          result |-> Err(new_invalid_arguments("since", SinceMsg))]
    ELSE [self |-> [self EXCEPT !.not_before = since],
          result |-> Ok(Unit)]

\* set_not_before reading None as the zero Duration (since.unwrap_or_default())
set_not_before_none_as_zero(self, since) ==
    LET s == IF is_some(since) THEN unwrap(since) ELSE Duration_new(0, 0) IN
    IF /\ is_some(self.not_after)
       /\ Duration_ge(s, unwrap(self.not_after))
    THEN [self |-> self,
          result |-> Err(new_invalid_arguments("since", SinceMsg))]
    ELSE [self |-> [self EXCEPT !.not_before = since],
          result |-> Ok(Unit)]

\* set_not_after comparing with < where the source has <=
set_not_after_lt(self, until) ==
    IF /\ is_some(until)
       /\ is_some(self.not_before)
       /\ Duration_lt(unwrap(until), unwrap(self.not_before))
    THEN [self |-> self,
          result |-> Err(new_invalid_arguments("until", UntilMsg))]
    ELSE [self |-> [self EXCEPT !.not_after = until],
          result |-> Ok(Unit)]

\* set_not_after naming the other setter's parameter in its error
set_not_after_names_since(self, until) ==
    IF /\ is_some(until)
       /\ is_some(self.not_before)
       /\ Duration_le(unwrap(until), unwrap(self.not_before))
    THEN [self |-> self,
          result |-> Err(new_invalid_arguments("since", UntilMsg))]
    ELSE [self |-> [self EXCEPT !.not_after = until],
          result |-> Ok(Unit)]

\* Both setters give the Permission after the call (self) and the value returned.
Permission_set_not_before(self, since) ==
    IF /\ is_some(since)
       /\ is_some(self.not_after)
       /\ Duration_ge(unwrap(since), unwrap(self.not_after))
    THEN [self |-> self,
          result |-> Err(new_invalid_arguments("since", SinceMsg))]
    ELSE [self |-> [self EXCEPT !.not_before = since],
          result |-> Ok(Unit)]

Permission_set_not_after(self, until) ==
    IF /\ is_some(until)
       /\ is_some(self.not_before)
       /\ Duration_le(unwrap(until), unwrap(self.not_before))
    THEN [self |-> self,
          result |-> Err(new_invalid_arguments("until", UntilMsg))]
    ELSE [self |-> [self EXCEPT !.not_after = until],
          result |-> Ok(Unit)]

\* Duration::as_secs: the whole seconds, the nanoseconds dropped.
Duration_as_secs(d) == d.secs

\* Permission::to_uplink_c: the UplinkPermission the backend is given. A bound
\* is map_or(0, |d| d.as_secs()) as i64; the cast changes no value below
\* 2^63, and every duration of the model is far below it.
Permission_to_uplink_c(self) ==
    [allow_download |-> self.allow_download,
     allow_upload |-> self.allow_upload,
     allow_list |-> self.allow_list,
     allow_delete |-> self.allow_delete,
     not_before |-> IF is_some(self.not_before)
                    THEN Duration_as_secs(unwrap(self.not_before)) ELSE 0,
     not_after |-> IF is_some(self.not_after)
                   THEN Duration_as_secs(unwrap(self.not_after)) ELSE 0]

\* let mut perm = Permission::new() | full() | read_only() | write_only()
Construct(name, value) ==
    /\ perm' = value
    /\ ret' = [op |-> name, result |-> value]
    /\ UNCHANGED <<panicked, grants, heap, buckets>>

PermissionNew == Construct("Permission::new", Permission_new)
PermissionFull == Construct("Permission::full", Permission_full)
PermissionReadOnly == Construct("Permission::read_only", Permission_read_only)
PermissionWriteOnly == Construct("Permission::write_only", Permission_write_only)

\* perm.allow_download = value, and so for the other three public flags
AssignFlag ==
    \E flag \in {"allow_download", "allow_upload", "allow_list", "allow_delete"},
       value \in BOOLEAN :
        /\ perm' = [perm EXCEPT ![flag] = value]
        /\ ret' = [op |-> "assign", arg |-> <<flag, value>>, result |-> Unit]
        /\ UNCHANGED <<panicked, grants, heap, buckets>>

\* perm.set_not_before(since)
SetNotBefore ==
    \E since \in OptDurations :
        LET r == Permission_set_not_before(perm, since) IN
        /\ perm' = r.self
        /\ ret' = [op |-> "set_not_before", arg |-> since, result |-> r.result]
        /\ UNCHANGED <<panicked, grants, heap, buckets>>

\* perm.set_not_after(until)
SetNotAfter ==
    \E until \in OptDurations :
        LET r == Permission_set_not_after(perm, until) IN
        /\ perm' = r.self
        /\ ret' = [op |-> "set_not_after", arg |-> until, result |-> r.result]
        /\ UNCHANGED <<panicked, grants, heap, buckets>>

\* permission.to_uplink_c(), as Access::share evaluates it for its foreign call
ToUplinkC ==
    /\ ret' = [op |-> "to_uplink_c", result |-> Permission_to_uplink_c(perm)]
    /\ UNCHANGED <<perm, panicked, grants, heap, buckets>>

InitPermission ==
    /\ perm = Permission_new
    /\ ret = [op |-> "Permission::new", result |-> Permission_new]
    /\ panicked = FALSE
    /\ grants = {}
    /\ heap = <<>>
    /\ buckets = {}

NextPermission ==
    \/ PermissionNew
    \/ PermissionFull
    \/ PermissionReadOnly
    \/ PermissionWriteOnly
    \/ AssignFlag
    \/ SetNotBefore
    \/ SetNotAfter
    \/ ToUplinkC

SpecPermission == InitPermission /\ [][NextPermission]_vars

----------------------------------------------------------------------------
(* Properties of Permission, checked under SpecPermission *)

\* t2 is a later instant than t1
After(t2, t1) ==
    \/ t2.secs > t1.secs
    \/ t2.secs = t1.secs /\ t2.nanos > t1.nanos

Flags(p) == <<p.allow_download, p.allow_upload, p.allow_list, p.allow_delete>>

IsSetter(r) == r.op \in {"set_not_before", "set_not_after"}

InvalidArgs(r, names) ==
    /\ r.result.tag = "Err"
    /\ r.result.err.kind = "InvalidArguments"
    /\ r.result.err.names = names

\* C3: in every reachable Permission, when not_before and not_after are both
\* set, not_before is strictly less than not_after.
C3_WindowOrdered ==
    (is_some(perm.not_before) /\ is_some(perm.not_after))
        => After(unwrap(perm.not_after), unwrap(perm.not_before))

\* C3's case: both bounds are set, each by its setter.
C3_Witness ==
    /\ is_some(perm.not_before)
    /\ is_some(perm.not_after)
    /\ IsSetter(ret)

\* C4: a set_not_before or set_not_after call that returns an InvalidArguments
\* error leaves not_before, not_after and the four flags as they were.
C4_FailedSetterKeepsState ==
    [][(/\ IsSetter(ret')
        /\ ret'.result.tag = "Err"
        /\ ret'.result.err.kind = "InvalidArguments") => perm' = perm]_vars

\* C4's case: a setter has just failed on a Permission with a bound set.
C4_Witness ==
    /\ IsSetter(ret)
    /\ ret.result.tag = "Err"
    /\ ret.result.err.kind = "InvalidArguments"
    /\ is_some(perm.not_before) \/ is_some(perm.not_after)

\* C5: with not_before = t1, set_not_after(Some(t2)) succeeds iff t2 > t1; on
\* success not_after is t2, otherwise the error is InvalidArguments naming
\* "until". With not_before unset it succeeds for every t2.
C5_SetNotAfter ==
    [][(ret'.op = "set_not_after" /\ is_some(ret'.arg)) =>
        IF is_some(perm.not_before)
        THEN /\ (ret'.result.tag = "Ok")
                    <=> After(unwrap(ret'.arg), unwrap(perm.not_before))
             /\ ret'.result.tag = "Ok" => perm'.not_after = ret'.arg
             /\ ret'.result.tag # "Ok" => InvalidArgs(ret', "until")
        ELSE /\ ret'.result.tag = "Ok"
             /\ perm'.not_after = ret'.arg]_vars

\* C5's case: set_not_after(Some(t2)) was refused with t2 equal to not_before.
C5_Witness ==
    /\ ret.op = "set_not_after"
    /\ is_some(ret.arg)
    /\ ret.arg = perm.not_before
    /\ InvalidArgs(ret, "until")

\* C6: with not_after = t2, set_not_before(Some(t1)) succeeds iff t1 < t2; on
\* success not_before is t1, otherwise the error is InvalidArguments naming
\* "since". With not_after unset it succeeds for every t1.
C6_SetNotBefore ==
    [][(ret'.op = "set_not_before" /\ is_some(ret'.arg)) =>
        IF is_some(perm.not_after)
        THEN /\ (ret'.result.tag = "Ok")
                    <=> After(unwrap(perm.not_after), unwrap(ret'.arg))
             /\ ret'.result.tag = "Ok" => perm'.not_before = ret'.arg
             /\ ret'.result.tag # "Ok" => InvalidArgs(ret', "since")
        ELSE /\ ret'.result.tag = "Ok"
             /\ perm'.not_before = ret'.arg]_vars

\* C6's case: set_not_before(Some(t1)) was refused with t1 equal to not_after.
C6_Witness ==
    /\ ret.op = "set_not_before"
    /\ is_some(ret.arg)
    /\ ret.arg = perm.not_after
    /\ InvalidArgs(ret, "since")

\* C7: set_not_before(None) and set_not_after(None) succeed in every state;
\* the cleared bound is None afterwards, the other bound and the flags keep
\* their values.
C7_ClearAlwaysSucceeds ==
    [][(IsSetter(ret') /\ ret'.arg = None) =>
        /\ ret'.result = Ok(Unit)
        /\ ret'.op = "set_not_before" =>
            /\ Permission_not_before(perm') = None
            /\ perm' = [perm EXCEPT !.not_before = None]
        /\ ret'.op = "set_not_after" =>
            /\ Permission_not_after(perm') = None
            /\ perm' = [perm EXCEPT !.not_after = None]]_vars

\* C7's case: not_before was cleared while not_after is set to the zero instant.
C7_Witness ==
    /\ ret.op = "set_not_before"
    /\ ret.arg = None
    /\ perm.not_after = Some(Duration_new(0, 0))

\* C8: the constructors give (download, upload, list, delete) =
\* new (F,F,F,F), full (T,T,T,T), read_only (T,F,T,F), write_only (F,T,F,T),
\* each with not_before = None and not_after = None.
C8_Constructors ==
    /\ ret.op = "Permission::new" => Flags(perm) = <<FALSE, FALSE, FALSE, FALSE>>
    /\ ret.op = "Permission::full" => Flags(perm) = <<TRUE, TRUE, TRUE, TRUE>>
    /\ ret.op = "Permission::read_only" => Flags(perm) = <<TRUE, FALSE, TRUE, FALSE>>
    /\ ret.op = "Permission::write_only" => Flags(perm) = <<FALSE, TRUE, FALSE, TRUE>>
    /\ ret.op \in {"Permission::new", "Permission::full",
                   "Permission::read_only", "Permission::write_only"} =>
        /\ Permission_not_before(perm) = None
        /\ Permission_not_after(perm) = None
        /\ ret.result = perm

\* C8's case: read_only() has just built the Permission.
C8_Witness ==
    /\ ret.op = "Permission::read_only"
    /\ perm.allow_download
    /\ ~perm.allow_upload

\* What the backend must be given for a bound: 0 for an unset one, and for a
\* set one its instant in seconds, which is never the 0 that means no bound.
PassedFaithfully(bound, passed) ==
    IF bound = None
    THEN passed = 0
    ELSE passed = unwrap(bound).secs /\ passed > 0

\* C17: the UplinkPermission that Share passes to the backend has the four
\* allow_* flags of the Permission, 0 for an unset bound and, for every set
\* bound, that instant in seconds: never 0 (no bound), never negative.
C17_PermissionPassedFaithfully ==
    ret.op = "to_uplink_c" =>
        /\ Flags(ret.result) = Flags(perm)
        /\ PassedFaithfully(perm.not_before, ret.result.not_before)
        /\ PassedFaithfully(perm.not_after, ret.result.not_after)

\* C23: for a Permission with both bounds set, the not_before that Share
\* passes to the backend is strictly less than the not_after it passes.
C23_PassedWindowOrdered ==
    (/\ ret.op = "to_uplink_c"
     /\ is_some(perm.not_before)
     /\ is_some(perm.not_after)) =>
        ret.result.not_before < ret.result.not_after

----------------------------------------------------------------------------
(* Text: a &str is the sequence of its bytes. NUL is the byte '\0'; the    *)
(* other two bytes stand for the text the tests use ('a' and '/').         *)

NUL == 0
Bytes == {NUL, 97, 47}
StrsUpTo(bytes, n) == UNION {[1..k -> bytes] : k \in 0..n}
Strs == StrsUpTo(Bytes, MaxLen)

\* str::contains(char)
contains(s, c) == \E i \in 1..Len(s) : s[i] = c

----------------------------------------------------------------------------
(* SharePrefix *)

NullBytesMsg == "cannot contains null bytes (0 byte)"

\* SharePrefix::new looking at prefix before bucket
SharePrefix_new_prefix_first(bucket, prefix) ==
    IF contains(prefix, NUL)
    THEN Err(new_invalid_arguments("prefix", NullBytesMsg))
    ELSE IF contains(bucket, NUL)
    THEN Err(new_invalid_arguments("bucket", NullBytesMsg))
    ELSE Ok([bucket |-> bucket, prefix |-> prefix])

SharePrefix_new(bucket, prefix) ==
    IF contains(bucket, NUL)
    THEN Err(new_invalid_arguments("bucket", NullBytesMsg))
    ELSE IF contains(prefix, NUL)
    THEN Err(new_invalid_arguments("prefix", NullBytesMsg))
    ELSE Ok([bucket |-> bucket, prefix |-> prefix])

SharePrefix_bucket(self) == self.bucket

\* prefix() returning the other field
SharePrefix_prefix_gives_bucket(self) == self.bucket

SharePrefix_prefix(self) == self.prefix

\* The record of a call SharePrefix::new(bucket, prefix)
SharePrefixCall(bucket, prefix) ==
    [op |-> "SharePrefix::new", bucket |-> bucket, prefix |-> prefix,
     result |-> SharePrefix_new(bucket, prefix)]

\* SharePrefix::new(bucket, prefix)
SharePrefixNew ==
    /\ \E bucket \in Strs, prefix \in Strs : ret' = SharePrefixCall(bucket, prefix)
    /\ UNCHANGED <<perm, panicked, grants, heap, buckets>>

InitSharePrefix ==
    /\ \E bucket \in Strs, prefix \in Strs : ret = SharePrefixCall(bucket, prefix)
    /\ perm = Permission_new
    /\ panicked = FALSE
    /\ grants = {}
    /\ heap = <<>>
    /\ buckets = {}

NextSharePrefix == SharePrefixNew

SpecSharePrefix == InitSharePrefix /\ [][NextSharePrefix]_vars

----------------------------------------------------------------------------
(* Properties of SharePrefix, checked under SpecSharePrefix *)

\* the bytes of s
BytesOf(s) == {s[i] : i \in DOMAIN s}

\* C9: when bucket or prefix holds a NUL byte, SharePrefix::new fails with
\* InvalidArguments and creates no SharePrefix; names is "bucket" whenever
\* bucket holds a NUL and "prefix" only when bucket is clean; msg is
\* "cannot contains null bytes (0 byte)".
C9_NulRejected ==
    (/\ ret.op = "SharePrefix::new"
     /\ 0 \in BytesOf(ret.bucket) \cup BytesOf(ret.prefix)) =>
        /\ ret.result.tag = "Err"
        /\ ret.result.err.kind = "InvalidArguments"
        /\ ret.result.err.names =
                IF 0 \in BytesOf(ret.bucket) THEN "bucket" ELSE "prefix"
        /\ ret.result.err.msg = "cannot contains null bytes (0 byte)"

\* C9's case: both strings hold a NUL byte and the error names bucket.
C9_Witness ==
    /\ ret.op = "SharePrefix::new"
    /\ 0 \in BytesOf(ret.bucket)
    /\ 0 \in BytesOf(ret.prefix)
    /\ ret.result.tag = "Err"
    /\ ret.result.err.names = "bucket"

\* C10: when neither string holds a NUL byte, SharePrefix::new succeeds and
\* bucket() and prefix() of the result are the strings passed in.
C10_CleanAccepted ==
    (/\ ret.op = "SharePrefix::new"
     /\ 0 \notin BytesOf(ret.bucket) \cup BytesOf(ret.prefix)) =>
        /\ ret.result.tag = "Ok"
        /\ SharePrefix_bucket(ret.result.val) = ret.bucket
        /\ SharePrefix_prefix(ret.result.val) = ret.prefix

\* C10's case: two different non-empty clean strings were accepted.
C10_Witness ==
    /\ ret.op = "SharePrefix::new"
    /\ ret.bucket = <<97>>
    /\ ret.prefix = <<97, 47>>
    /\ ret.result.tag = "Ok"

----------------------------------------------------------------------------
(* The foreign backend (uplink_sys) as the crate sees it: raw pointers and *)
(* the dual-outcome results its calls return.                              *)

null == <<>>
ptr(x) == <<x>>
is_null(p) == p = <<>>
deref(p) == p[1]

\* An UplinkError the backend may point at: a code and a C string message.
\* The codes are two of the backend's (internal, bucket not found); the
\* backend always sets the message.
BackendErrors == [code : {2, 19}, message : {<<97>>, <<47, 97>>}]

\* The UplinkAccess a result may point at.
BackendAccesses == {[handle |-> 1]}

\* Every UplinkAccessResult the type admits: each field null or not.
AccessResults ==
    [access : {null} \cup {ptr(a) : a \in BackendAccesses},
     error : {null} \cup {ptr(e) : e \in BackendErrors}]

\* Every UplinkStringResult the type admits: each field null or not.
StringResults ==
    [string : {null} \cup {ptr(<<97>>)},
     error : {null} \cup {ptr(e) : e \in BackendErrors}]

\* The result as the backend hands it over: its UplinkAccess, when it has one,
\* is a new handle, numbered id.
with_handle(accres, id) ==
    IF is_null(accres.access)
    THEN accres
    ELSE [accres EXCEPT !.access = ptr([handle |-> id])]

\* The heap once the backend has handed over a result of this kind with these
\* two slots: a result with a slot populated is one more thing to free.
hand_over(h, kind, value, error) ==
    IF is_null(value) /\ is_null(error)
    THEN h
    ELSE Append(h, [kind |-> kind, frees |-> 0])

\* The text arguments of the Access constructors.
ArgStrs == StrsUpTo({NUL, 97}, MaxArgLen)

\* helpers::cstring_from_str_fn_arg: the text as an owned C string, or
\* InvalidArguments naming the argument and the offset of its first NUL byte.
cstring_from_str_fn_arg(arg_name, arg_val) ==
    IF contains(arg_val, NUL)
    THEN LET first == CHOOSE i \in 1..Len(arg_val) :
                        /\ arg_val[i] = NUL
                        /\ \A j \in 1..(i - 1) : arg_val[j] # NUL
         IN Err(new_invalid_arguments(arg_name,
                    <<"cannot contains null bytes (0 byte). Null byte found at",
                      first - 1>>))
    ELSE Ok(arg_val)

\* The decimal digits of n >= 0, as text.
RECURSIVE decimal(_)
decimal(n) ==
    IF n < 10 THEN <<48 + n>> ELSE decimal(n \div 10) \o <<48 + (n % 10)>>

\* c_char::to_string(): the byte as a signed number (c_char is i8), in decimal.
c_char_to_string(byte) ==
    IF byte > 127 THEN <<45>> \o decimal(256 - byte) ELSE decimal(byte)

\* Uplink::from_raw: None for a null pointer; otherwise the code, and as
\* details the to_string() of what message.as_ref().unwrap() refers to, the
\* first c_char of the message (the terminator when the message is empty).
Uplink_from_raw(ulkerr) ==
    IF is_null(ulkerr)
    THEN None
    ELSE LET message == deref(ulkerr).message
             first == IF Len(message) > 0 THEN message[1] ELSE NUL
         IN Some([code |-> deref(ulkerr).code,
                  details |-> c_char_to_string(first)])

\* Error::new_uplink: Uplink::from_raw(ulkerr).map(Self::Uplink)
new_uplink(ulkerr) ==
    LET e == Uplink_from_raw(ulkerr) IN
    IF is_some(e)
    THEN Some([kind |-> "Uplink", code |-> unwrap(e).code,
               details |-> unwrap(e).details])
    ELSE None

AccessBothNull == "invalid underlying c-binding returned UplinkAccessResult, access and error fields are both NULL"
AccessBothNotNull == "invalid underlying c-binding returned UplinkAccessResult, access and error fields are both NOT NULL"
StringBothNull == "invalid underlying c-binding returned UplinkStringResult, string and error fields are both NULL"
StringBothNotNull == "invalid underlying c-binding returned UplinkStringResult, string and error fields are both NOT NULL"

\* Ensurer for UplinkAccessResult: the two assert! in their order; a failed
\* one panics with its message, otherwise self is returned.
UplinkAccessResult_ensure(self) ==
    IF ~(~is_null(self.access) \/ ~is_null(self.error))
    THEN Panic(AccessBothNull)
    ELSE IF ~(~is_null(self.access) /\ ~is_null(self.error))
    THEN Panic(AccessBothNotNull)
    ELSE Ok(self)

\* Ensurer for UplinkStringResult
UplinkStringResult_ensure(self) ==
    IF ~(~is_null(self.string) \/ ~is_null(self.error))
    THEN Panic(StringBothNull)
    ELSE IF ~(~is_null(self.string) /\ ~is_null(self.error))
    THEN Panic(StringBothNotNull)
    ELSE Ok(self)

\* What a constructor does with the result of its foreign call: ensure, then
\* the error slot, then Access { inner: accres }.
access_from_result(accres) ==
    LET ensured == UplinkAccessResult_ensure(accres) IN
    IF ensured.tag = "Panic"
    THEN ensured
    ELSE LET e == new_uplink(ensured.val.error) IN
         IF is_some(e)
         THEN Err(unwrap(e))
         ELSE Ok([inner |-> ensured.val])

\* Access::new(saccess), the backend answering uplink_parse_access with
\* accres. Gives the value returned (or the panic) and, when the foreign
\* call was made, its result (ffi).
Access_new(saccess, accres) ==
    LET cs == cstring_from_str_fn_arg("saccess", saccess) IN
    IF cs.tag = "Err"
    THEN [result |-> cs, ffi |-> None]
    ELSE [result |-> access_from_result(accres), ffi |-> Some(accres)]

\* Access::request_access_with_passphrase(satellite_addr, api_key,
\* passphrase), the backend answering with accres.
Access_request_access_with_passphrase(satellite_addr, api_key, passphrase, accres) ==
    LET sa == cstring_from_str_fn_arg("sattellite_addr", satellite_addr)
        ak == cstring_from_str_fn_arg("api_key", api_key)
        pp == cstring_from_str_fn_arg("passphrase", passphrase)
    IN
    IF sa.tag = "Err" THEN [result |-> sa, ffi |-> None]
    ELSE IF ak.tag = "Err" THEN [result |-> ak, ffi |-> None]
    ELSE IF pp.tag = "Err" THEN [result |-> pp, ffi |-> None]
    ELSE [result |-> access_from_result(accres), ffi |-> Some(accres)]

\* The step of a constructor call that returned r (its result, and ffi when
\* the foreign call was made and answered accres): the backend has handed
\* accres over, and an Access returned is the client's.
Constructed(name, args, accres, r) ==
    /\ ret' = [op |-> name, args |-> args, ffi |-> r.ffi, result |-> r.result]
    /\ panicked' = (r.result.tag = "Panic")
    /\ heap' = IF is_some(r.ffi)
               THEN hand_over(heap, "UplinkAccessResult", accres.access, accres.error)
               ELSE heap
    /\ grants' = IF r.result.tag = "Ok" THEN grants \cup {r.result.val} ELSE grants

\* Access::new(saccess)
AccessNew ==
    /\ ~panicked
    /\ Len(heap) < MaxAllocs
    /\ \E saccess \in ArgStrs, shape \in AccessResults :
        LET accres == with_handle(shape, Len(heap) + 1)
            r == Access_new(saccess, accres)
        IN Constructed("Access::new", <<saccess>>, accres, r)
    /\ UNCHANGED <<perm, buckets>>

\* Access::request_access_with_passphrase(satellite_addr, api_key, passphrase)
RequestAccessWithPassphrase ==
    /\ ~panicked
    /\ Len(heap) < MaxAllocs
    /\ \E satellite_addr \in ArgStrs, api_key \in ArgStrs, passphrase \in ArgStrs,
          shape \in AccessResults :
        LET accres == with_handle(shape, Len(heap) + 1)
            r == Access_request_access_with_passphrase(
                    satellite_addr, api_key, passphrase, accres)
        IN Constructed("Access::request_access_with_passphrase",
                       <<satellite_addr, api_key, passphrase>>, accres, r)
    /\ UNCHANGED <<perm, buckets>>

\* strres.ensure(): the guard applied to a string result, as
\* satellite_address and serialize apply it to what the backend returns.
EnsureStringResult ==
    /\ ~panicked
    /\ \E strres \in StringResults :
        LET r == UplinkStringResult_ensure(strres) IN
        /\ ret' = [op |-> "UplinkStringResult::ensure", args |-> <<>>,
                   ffi |-> Some(strres), result |-> r]
        /\ panicked' = (r.tag = "Panic")
    /\ UNCHANGED <<perm, grants, heap, buckets>>

InitAccess ==
    /\ perm = Permission_new
    /\ ret = [op |-> "start", args |-> <<>>, ffi |-> None, result |-> Ok(Unit)]
    /\ panicked = FALSE
    /\ grants = {}
    /\ heap = <<>>
    /\ buckets = {}

NextAccess ==
    \/ AccessNew
    \/ RequestAccessWithPassphrase
    \/ EnsureStringResult

SpecAccess == InitAccess /\ [][NextAccess]_vars

----------------------------------------------------------------------------
(* Properties of the guard and the Access constructors, checked under      *)
(* SpecAccess                                                              *)

\* The value slot of a dual-outcome result.
ValueSlot(r) == IF "access" \in DOMAIN r THEN r.access ELSE r.string

Populated(r) == {slot \in {"value", "error"} :
                    IF slot = "value" THEN ValueSlot(r) # <<>> ELSE r.error # <<>>}

\* C1: a dual-outcome result with both slots populated, or neither, makes the
\* guard abort: the call that received it panics and never reads the slots.
C1_MalformedResultAborts ==
    (is_some(ret.ffi) /\ Cardinality(Populated(unwrap(ret.ffi))) # 1)
        => (ret.result.tag = "Panic" /\ panicked)

\* C2: a dual-outcome result with exactly one slot populated passes the guard
\* (no panic); the constructors then return an Access holding that result
\* when the value slot is populated, and an Err carrying the backend error
\* (an Uplink error with the backend's code) when the error slot is.
C2_WellFormedResultTranslated ==
    (is_some(ret.ffi) /\ Cardinality(Populated(unwrap(ret.ffi))) = 1) =>
        /\ ret.result.tag # "Panic"
        /\ ~panicked
        /\ ret.op \in {"Access::new", "Access::request_access_with_passphrase"} =>
            IF Populated(unwrap(ret.ffi)) = {"value"}
            THEN ret.result = Ok([inner |-> unwrap(ret.ffi)])
            ELSE /\ ret.result.tag = "Err"
                 /\ ret.result.err.kind = "Uplink"
                 /\ ret.result.err.code = unwrap(ret.ffi).error[1].code

\* The parameter names of the operations that take text, in parameter order.
ParamNames(op) ==
    CASE op = "Access::new" -> <<"saccess">>
      [] op = "Access::request_access_with_passphrase" ->
            <<"satellite_addr", "api_key", "passphrase">>
      [] op = "Access::override_encryption_key" -> <<"bucket", "prefix">>

TextOps == {"Access::new", "Access::request_access_with_passphrase",
            "Access::override_encryption_key"}

\* The first argument that holds a NUL byte.
FirstInvalid(args) ==
    CHOOSE i \in 1..Len(args) :
        /\ 0 \in BytesOf(args[i])
        /\ \A j \in 1..(i - 1) : 0 \notin BytesOf(args[j])

\* C11: when a text argument of Parse, RequestWithPassphrase or
\* OverrideEncryptionKey holds a NUL byte, the operation returns
\* InvalidArguments naming the first such argument in parameter order, and
\* no foreign call has been made.
C11_InvalidTextShortCircuits ==
    (/\ ret.op \in TextOps
     /\ \E i \in 1..Len(ret.args) : 0 \in BytesOf(ret.args[i])) =>
        /\ ret.result.tag = "Err"
        /\ ret.result.err.kind = "InvalidArguments"
        /\ ret.result.err.names = ParamNames(ret.op)[FirstInvalid(ret.args)]
        /\ ret.ffi = None

\* C12: when the backend answers Parse with the value slot empty and the
\* error slot populated, Parse returns an Uplink (ForeignBackend) error: no
\* InvalidArguments, no panic.
C12_ParseRejectionIsBackendError ==
    (/\ ret.op = "Access::new"
     /\ is_some(ret.ffi)
     /\ unwrap(ret.ffi).access = <<>>
     /\ unwrap(ret.ffi).error # <<>>) =>
        /\ ret.result.tag = "Err"
        /\ ret.result.err.kind = "Uplink"
        /\ ~panicked

\* C19: an Uplink error built from a backend error descriptor has the
\* descriptor's code as its code and the descriptor's whole message text as
\* its details.
C19_DescriptorPreserved ==
    (/\ ret.op \in TextOps
     /\ is_some(ret.ffi)
     /\ ret.result.tag = "Err"
     /\ ret.result.err.kind = "Uplink") =>
        /\ ret.result.err.code = unwrap(ret.ffi).error[1].code
        /\ ret.result.err.details = unwrap(ret.ffi).error[1].message

----------------------------------------------------------------------------
(* The life of an Access: its methods and its Drop.                        *)
(*                                                                         *)
(* The methods take &self, so they need an Access to exist. SpecGrant      *)
(* starts with one the client owns: Access { inner: accres }, accres being *)
(* what the backend returns for a grant (its access set, its error null),  *)
(* the value the last line of Access::new and of Access::share builds.     *)

\* share is given at most MaxPrefixes SharePrefix values.
MaxPrefixes == 2

\* CString::new(bytes): the C string of the bytes, or an error when a byte
\* of them is NUL.
CString_new(bytes) ==
    IF contains(bytes, NUL) THEN Err("NulError") ELSE Ok(bytes)

BucketBugMsg == "BUG: Never set a value to the `bucket` field without previously guarantee there won't be an error converting it to a CString value."
PrefixBugMsg == "BUG: Never set a value to the `prefix` field without previously guarantee there won't be an error converting it to a CString value."

\* SharePrefix::to_uplink_c: the UplinkSharePrefix of the two C strings.
SharePrefix_to_uplink_c(self) ==
    LET bucket == CString_new(self.bucket)
        prefix == CString_new(self.prefix)
    IN
    IF bucket.tag = "Err" THEN Panic(BucketBugMsg)
    ELSE IF prefix.tag = "Err" THEN Panic(PrefixBugMsg)
    ELSE Ok([bucket |-> bucket.val, prefix |-> prefix.val])

\* for sp in prefixes { ulk_prefixes.push(sp.to_uplink_c()) }: the vector
\* pushed so far, or the panic of the first element that panics.
RECURSIVE push_all(_, _)
push_all(ulk_prefixes, prefixes) ==
    IF prefixes = <<>>
    THEN Ok(ulk_prefixes)
    ELSE LET c == SharePrefix_to_uplink_c(Head(prefixes)) IN
         IF c.tag = "Panic"
         THEN c
         ELSE push_all(Append(ulk_prefixes, c.val), Tail(prefixes))

\* share() passing one prefix less than it was given
Access_share_drops_last(self, permission, prefixes, accres) ==
    LET n == IF Len(prefixes) > 0 THEN Len(prefixes) - 1 ELSE 0
        ulk_prefixes == push_all(<<>>, SubSeq(prefixes, 1, n))
    IN [call |-> Some([access |-> self.inner.access,
                       permission |-> Permission_to_uplink_c(permission),
                       prefixes |-> ulk_prefixes.val,
                       prefixes_count |-> Len(ulk_prefixes.val)]),
        ffi |-> Some(accres),
        result |-> access_from_result(accres)]

\* self.share(permission, prefixes), the backend answering
\* uplink_access_share with accres. call is what the backend was given.
Access_share(self, permission, prefixes, accres) ==
    LET ulk_prefixes == push_all(<<>>, prefixes) IN
    IF ulk_prefixes.tag = "Panic"
    THEN [call |-> None, ffi |-> None, result |-> ulk_prefixes]
    ELSE [call |-> Some([access |-> self.inner.access,
                         permission |-> Permission_to_uplink_c(permission),
                         prefixes |-> ulk_prefixes.val,
                         prefixes_count |-> Len(ulk_prefixes.val)]),
          ffi |-> Some(accres),
          result |-> access_from_result(accres)]

\* CStr::to_str: the text of the C string when its bytes are UTF-8. The
\* bytes of the model are ASCII; any other byte is taken as not UTF-8.
CStr_to_str(bytes) ==
    IF \A i \in 1..Len(bytes) : bytes[i] < 128 THEN Ok(bytes) ELSE Err("Utf8Error")

\* What satellite_address and serialize do with the UplinkStringResult of
\* their foreign call: ensure, then the error slot, then the text.
str_from_result(strres) ==
    LET ensured == UplinkStringResult_ensure(strres) IN
    IF ensured.tag = "Panic"
    THEN ensured
    ELSE LET e == new_uplink(ensured.val.error) IN
         IF is_some(e)
         THEN Err(unwrap(e))
         ELSE LET text == CStr_to_str(deref(ensured.val.string)) IN
              IF text.tag = "Err"
              THEN Panic("invalid underlying c-binding")
              ELSE text

\* self.satellite_address(), the backend answering with strres
Access_satellite_address(self, strres) == str_from_result(strres)

\* self.serialize(), the backend answering with strres
Access_serialize(self, strres) == str_from_result(strres)

\* self.override_encryption_key(bucket, prefix, encryption_key), the backend
\* answering uplink_access_override_encryption_key with err.
Access_override_encryption_key(self, bucket, prefix, err) ==
    LET b == cstring_from_str_fn_arg("bucket", bucket)
        p == cstring_from_str_fn_arg("prefix", prefix)
    IN
    IF b.tag = "Err" THEN [result |-> b, ffi |-> None]
    ELSE IF p.tag = "Err" THEN [result |-> p, ffi |-> None]
    ELSE [result |-> LET e == new_uplink(err) IN
                     IF is_some(e) THEN Err(unwrap(e)) ELSE Ok(Unit),
          ffi |-> Some(err)]

\* uplink_free_access_result / uplink_free_string_result on result id
free(h, id) == [h EXCEPT ![id].frees = @ + 1]

\* The place in the heap of the result an Access holds.
result_of(self) == deref(self.inner.access).handle

\* drop() freeing the result twice
Access_drop_twice(self, h) == free(free(h, result_of(self)), result_of(self))

\* Drop for Access: uplink_free_access_result(self.inner)
Access_drop(self, h) == free(h, result_of(self))

\* The SharePrefix values share is given: the Ok of SharePrefix::new
\* ("a", "") and ("a", "a/").
SharePrefixes ==
    {SharePrefix_new(<<97>>, prefix).val : prefix \in {<<>>, <<97, 47>>}}
PrefixLists == UNION {[1..n -> SharePrefixes] : n \in 0..MaxPrefixes}

\* The Permission values share is given: two of the constructors' and one
\* with a bound set.
SharePermissions ==
    {Permission_full,
     Permission_read_only,
     Permission_set_not_after(Permission_read_only, Some(Duration_new(MaxSecs, 0))).self}

\* The *mut UplinkError a foreign call may return: null, or an error.
ErrorResults == {null} \cup {ptr(e) : e \in BackendErrors}

\* self.share(permission, prefixes)
Share ==
    /\ ~panicked
    /\ Len(heap) < MaxAllocs
    /\ \E self \in grants, permission \in SharePermissions,
          prefixes \in PrefixLists, shape \in AccessResults :
        LET accres == with_handle(shape, Len(heap) + 1)
            r == Access_share(self, permission, prefixes, accres)
        IN
        /\ ret' = [op |-> "Access::share", self |-> self,
                   args |-> <<permission, prefixes>>, call |-> r.call,
                   ffi |-> r.ffi, result |-> r.result]
        /\ panicked' = (r.result.tag = "Panic")
        /\ heap' = IF is_some(r.ffi)
                   THEN hand_over(heap, "UplinkAccessResult", accres.access, accres.error)
                   ELSE heap
        /\ grants' = IF r.result.tag = "Ok" THEN grants \cup {r.result.val} ELSE grants
    /\ UNCHANGED <<perm, buckets>>

\* The step of a call of satellite_address or serialize on self that
\* returned result, the backend having answered strres.
StringAsked(name, self, strres, result) ==
    /\ ret' = [op |-> name, self |-> self, args |-> <<>>,
               ffi |-> Some(strres), result |-> result]
    /\ panicked' = (result.tag = "Panic")
    /\ heap' = hand_over(heap, "UplinkStringResult", strres.string, strres.error)
    /\ UNCHANGED <<perm, grants, buckets>>

\* self.satellite_address()
SatelliteAddress ==
    /\ ~panicked
    /\ Len(heap) < MaxAllocs
    /\ \E self \in grants, strres \in StringResults :
        StringAsked("Access::satellite_address", self, strres,
                    Access_satellite_address(self, strres))

\* self.serialize()
Serialize ==
    /\ ~panicked
    /\ Len(heap) < MaxAllocs
    /\ \E self \in grants, strres \in StringResults :
        StringAsked("Access::serialize", self, strres,
                    Access_serialize(self, strres))

\* self.override_encryption_key(bucket, prefix, encryption_key)
OverrideEncryptionKey ==
    /\ ~panicked
    /\ Len(heap) < MaxAllocs
    /\ \E self \in grants, bucket \in ArgStrs, prefix \in ArgStrs, err \in ErrorResults :
        LET r == Access_override_encryption_key(self, bucket, prefix, err) IN
        /\ ret' = [op |-> "Access::override_encryption_key", self |-> self,
                   args |-> <<bucket, prefix>>, ffi |-> r.ffi, result |-> r.result]
        /\ heap' = IF is_some(r.ffi)
                   THEN hand_over(heap, "UplinkError", null, err)
                   ELSE heap
    /\ UNCHANGED <<perm, panicked, grants, buckets>>

\* An Access of the client goes out of scope, at the end of its block or
\* while a panic unwinds: drop(&mut self)
DropAccess ==
    /\ \E self \in grants :
        /\ grants' = grants \ {self}
        /\ heap' = Access_drop(self, heap)
        /\ ret' = [op |-> "drop", self |-> self, args |-> <<>>,
                   ffi |-> None, result |-> Ok(Unit)]
    /\ UNCHANGED <<perm, panicked, buckets>>

InitGrant ==
    /\ perm = Permission_new
    /\ ret = [op |-> "start", args |-> <<>>, ffi |-> None, result |-> Ok(Unit)]
    /\ panicked = FALSE
    /\ grants = {[inner |-> [access |-> ptr([handle |-> 1]), error |-> null]]}
    /\ heap = <<[kind |-> "UplinkAccessResult", frees |-> 0]>>
    /\ buckets = {}

NextGrant ==
    \/ AccessNew
    \/ Share
    \/ SatelliteAddress
    \/ Serialize
    \/ OverrideEncryptionKey
    \/ DropAccess

SpecGrant == InitGrant /\ [][NextGrant]_vars

----------------------------------------------------------------------------
(* Properties of the life of an Access, checked under SpecGrant *)

\* The backend answered the call with its value and no error.
Succeeded(r) ==
    /\ r.ffi # <<>>
    /\ ValueSlot(r.ffi[1]) # <<>>
    /\ r.ffi[1].error = <<>>

MethodOps == {"Access::satellite_address", "Access::serialize", "Access::share",
              "Access::override_encryption_key"}

\* How many times the result an Access holds was freed in heap h.
Released(h, g) == h[g.inner.access[1].handle].frees

\* C13: the round trip. When the backend answers each step with its value,
\* g.serialize() returns the serialized text, Access::new of a text returns
\* the Access of the backend's grant, and satellite_address() returns the
\* backend's address, so that the parsed grant reports the address of g.
C13_RoundTrip ==
    /\ (ret.op = "Access::serialize" /\ Succeeded(ret)) =>
            ret.result = Ok(ret.ffi[1].string[1])
    /\ (ret.op = "Access::new" /\ Succeeded(ret)) =>
            ret.result = Ok([inner |-> ret.ffi[1]])
    /\ (ret.op = "Access::satellite_address" /\ Succeeded(ret)) =>
            ret.result = Ok(ret.ffi[1].string[1])

\* C14: the result an Access holds is freed exactly once, by its drop: it is
\* not freed while the Access is alive, it has been freed once when the
\* Access is gone, no result is ever freed twice, and every method runs on
\* an Access that is alive and whose result is not freed.
C14_HandleReleasedOnceAtDrop ==
    [][/\ \A g \in grants : Released(heap, g) = 0
       /\ \A g \in grants' : Released(heap', g) = 0
       /\ \A g \in grants \ grants' : ret'.op = "drop" /\ Released(heap', g) = 1
       /\ \A i \in 1..Len(heap') : heap'[i].frees <= 1
       /\ ret'.op \in MethodOps =>
            /\ ret'.self \in grants
            /\ Released(heap, ret'.self) = 0]_vars

C14_Witness ==
    /\ ret.op = "drop"
    /\ ret.self \notin grants
    /\ Released(heap, ret.self) = 1
    /\ Len(heap) > 1

C16_NothingLeaked ==
    /\ \A i \in 1..Len(heap) : heap[i].frees <= 1
    /\ grants = {} => \A i \in 1..Len(heap) : heap[i].frees = 1

\* C18: share makes its foreign call whatever the list, with a count equal
\* to the length of the list and the (bucket, prefix) pairs of the list in
\* the order given; for the empty list the count is 0.
C18_PrefixesPassedUnchanged ==
    ret.op = "Access::share" =>
        /\ ret.call # <<>>
        /\ ret.ffi # <<>>
        /\ LET given == ret.args[2]
               call == ret.call[1]
           IN
           /\ call.prefixes_count = Len(given)
           /\ Len(call.prefixes) = Len(given)
           /\ \A i \in 1..Len(given) :
                /\ call.prefixes[i].bucket = SharePrefix_bucket(given[i])
                /\ call.prefixes[i].prefix = SharePrefix_prefix(given[i])

C18_Witness ==
    /\ ret.op = "Access::share"
    /\ Len(ret.args[2]) = MaxPrefixes
    /\ ret.args[2][1] # ret.args[2][2]
    /\ ret.call[1].prefixes_count = MaxPrefixes

----------------------------------------------------------------------------
(* Config *)

\* Duration::as_millis: the whole milliseconds, secs * 1000 + nanos / 10^6,
\* a u128. Such a number is written as the pair of what is above its low
\* 16 bits and those 16 bits, so that no step of the sum leaves the numbers
\* that can be written down.
Duration_as_millis(d) ==
    LET low == (d.secs % 65536) * 1000 + d.nanos \div 1000000
    IN <<(d.secs \div 65536) * 1000 + low \div 65536, low % 65536>>

\* `as i32` of a u128: its low 32 bits, read as a signed number.
as_i32(millis) ==
    LET high16 == millis[1] % 65536 IN
    IF high16 >= 32768
    THEN (high16 - 65536) * 65536 + millis[2]
    ELSE high16 * 65536 + millis[2]

\* The dial timeouts given: those of the tests of config.rs (3s, 2.005s,
\* 1.785999999s), none, and timeouts around i32::MAX and u32::MAX
\* milliseconds.
DialTimeouts ==
    {Duration_new(0, 0), Duration_new(3, 0), Duration_new(2, 5000000),
     Duration_new(1, 785999999),
     Duration_new(2147483, 647000000), Duration_new(2147483, 648000000),
     Duration_new(2147484, 0), Duration_new(4294967, 296000000)}

\* The &str given as user_agent and as temp_dir
ConfigStrs == StrsUpTo({NUL, 97}, MaxLen)

\* Config::new(user_agent, dial_timeout)
Config_new(user_agent, dial_timeout) ==
    LET uagent == cstring_from_str_fn_arg("user_agent", user_agent) IN
    IF uagent.tag = "Err"
    THEN uagent
    ELSE Ok([inner |-> [user_agent |-> ptr(uagent.val),
                        dial_timeout_milliseconds |->
                            as_i32(Duration_as_millis(dial_timeout)),
                        temp_directory |-> null],
             user_agent |-> user_agent,
             dial_timeout |-> dial_timeout,
             temp_dir |-> None,
             in_memory |-> TRUE])

\* new_use_disk marshalling temp_dir before user_agent
Config_new_use_disk_temp_dir_first(user_agent, dial_timeout, temp_dir) ==
    LET tdir == cstring_from_str_fn_arg("temp_dir",
                    IF is_some(temp_dir) THEN unwrap(temp_dir) ELSE <<>>)
        uagent == cstring_from_str_fn_arg("user_agent", user_agent)
    IN IF tdir.tag = "Err" THEN tdir ELSE uagent

\* Config::new_use_disk(user_agent, dial_timeout, temp_dir)
Config_new_use_disk(user_agent, dial_timeout, temp_dir) ==
    LET uagent == cstring_from_str_fn_arg("user_agent", user_agent) IN
    IF uagent.tag = "Err"
    THEN uagent
    ELSE LET tdir == cstring_from_str_fn_arg("temp_dir",
                        IF is_some(temp_dir) THEN unwrap(temp_dir) ELSE <<>>)
         IN
         IF tdir.tag = "Err"
         THEN tdir
         ELSE Ok([inner |-> [user_agent |-> ptr(uagent.val),
                             dial_timeout_milliseconds |->
                                 as_i32(Duration_as_millis(dial_timeout)),
                             temp_directory |-> ptr(tdir.val)],
                  user_agent |-> user_agent,
                  dial_timeout |-> dial_timeout,
                  temp_dir |-> temp_dir,
                  in_memory |-> FALSE])

\* The record of a call Config::new(user_agent, dial_timeout)
ConfigNewCall(user_agent, dial_timeout) ==
    [op |-> "Config::new", args |-> <<user_agent, dial_timeout>>,
     result |-> Config_new(user_agent, dial_timeout)]

\* Config::new(user_agent, dial_timeout)
ConfigNew ==
    /\ \E user_agent \in ConfigStrs, dial_timeout \in DialTimeouts :
        ret' = ConfigNewCall(user_agent, dial_timeout)
    /\ UNCHANGED <<perm, panicked, grants, heap, buckets>>

\* Config::new_use_disk(user_agent, dial_timeout, temp_dir)
ConfigNewUseDisk ==
    /\ \E user_agent \in ConfigStrs, dial_timeout \in DialTimeouts,
          temp_dir \in {None} \cup {Some(dir) : dir \in ConfigStrs} :
        ret' = [op |-> "Config::new_use_disk",
                args |-> <<user_agent, dial_timeout, temp_dir>>,
                result |-> Config_new_use_disk(user_agent, dial_timeout, temp_dir)]
    /\ UNCHANGED <<perm, panicked, grants, heap, buckets>>

InitConfig ==
    /\ perm = Permission_new
    /\ \E user_agent \in ConfigStrs, dial_timeout \in DialTimeouts :
        ret = ConfigNewCall(user_agent, dial_timeout)
    /\ panicked = FALSE
    /\ grants = {}
    /\ heap = <<>>
    /\ buckets = {}

NextConfig ==
    \/ ConfigNew
    \/ ConfigNewUseDisk

SpecConfig == InitConfig /\ [][NextConfig]_vars

----------------------------------------------------------------------------
(* Properties of Config, checked under SpecConfig *)

\* The texts a Config constructor marshals, in the order of its parameters,
\* each with the name of its field.
Marshalled(r) ==
    IF r.op = "Config::new"
    THEN <<[name |-> "user_agent", text |-> r.args[1]]>>
    ELSE <<[name |-> "user_agent", text |-> r.args[1]],
           [name |-> "temp_dir", text |-> IF r.args[3] = <<>> THEN <<>> ELSE r.args[3][1]]>>

\* The offset of the first NUL byte of a text that has one.
FirstNulOffset(text) ==
    CHOOSE k \in 0..(Len(text) - 1) :
        /\ text[k + 1] = 0
        /\ \A j \in 1..k : text[j] # 0

\* C20: a Config constructor fails exactly when a text it marshals has a NUL
\* byte; the error is InvalidArguments, its names the field of the first
\* such text in parameter order (user_agent before temp_dir), its msg the
\* offset of the first NUL of that text, and no Config is returned.
C20_MarshallingRejectsNul ==
    ret.op \in {"Config::new", "Config::new_use_disk"} =>
        LET texts == Marshalled(ret)
            bad == {i \in 1..Len(texts) : 0 \in BytesOf(texts[i].text)}
        IN
        IF bad = {}
        THEN ret.result.tag = "Ok"
        ELSE LET first == CHOOSE i \in bad : \A j \in bad : i <= j IN
             /\ ret.result.tag = "Err"
             /\ ret.result.err.kind = "InvalidArguments"
             /\ ret.result.err.names = texts[first].name
             /\ ret.result.err.msg =
                    <<"cannot contains null bytes (0 byte). Null byte found at",
                      FirstNulOffset(texts[first].text)>>

C20_Witness ==
    /\ ret.op = "Config::new_use_disk"
    /\ ret.args[3] # <<>>
    /\ 0 \in BytesOf(ret.args[3][1])
    /\ ret.result.tag = "Err"
    /\ ret.result.err.names = "user_agent"
    /\ ret.result.err.msg[2] = 1

\* C22: the dial_timeout_milliseconds of the UplinkConfig a Config
\* constructor builds is the number of whole milliseconds of the timeout
\* given: it is not negative, its thousands are the seconds of the timeout
\* and its rest is the whole milliseconds of the nanoseconds.
C22_DialTimeoutInMilliseconds ==
    (/\ ret.op \in {"Config::new", "Config::new_use_disk"}
     /\ ret.result.tag = "Ok") =>
        LET passed == ret.result.val.inner.dial_timeout_milliseconds
            given == ret.args[2]
        IN
        /\ passed >= 0
        /\ passed \div 1000 = given.secs
        /\ passed % 1000 = given.nanos \div 1000000

----------------------------------------------------------------------------
(* error::Uplink: the label of an error code *)

\* The error codes of the backend (uplink_definitions.h, bound by uplink-sys)
UPLINK_ERROR_INTERNAL == 2
UPLINK_ERROR_CANCELED == 3
UPLINK_ERROR_INVALID_HANDLE == 4
UPLINK_ERROR_TOO_MANY_REQUESTS == 5
UPLINK_ERROR_BANDWIDTH_LIMIT_EXCEEDED == 6
UPLINK_ERROR_BUCKET_NAME_INVALID == 16
UPLINK_ERROR_BUCKET_ALREADY_EXISTS == 17
UPLINK_ERROR_BUCKET_NOT_EMPTY == 18
UPLINK_ERROR_BUCKET_NOT_FOUND == 19
UPLINK_ERROR_OBJECT_KEY_INVALID == 32
UPLINK_ERROR_OBJECT_NOT_FOUND == 33
UPLINK_ERROR_UPLOAD_DONE == 34

\* A u32 is the pair of its two 16-bit halves, the high one first, so that
\* every value of the type can be written down.
u32(n) == <<n \div 65536, n % 65536>>

\* `as u32` dropping the sign of the code
as_u32_magnitude(code) == IF code >= 0 THEN u32(code) ELSE u32(0 - code)

\* `code as u32` of an i32: the same 32 bits, so a negative code is the
\* value 2^32 + code, whose high half has its top bit set.
as_u32(code) ==
    IF code >= 0
    THEN u32(code)
    ELSE LET low31 == (code + 2147483647) + 1
         IN <<32768 + low31 \div 65536, low31 % 65536>>

\* Uplink::message
Uplink_message(self) ==
    LET code == as_u32(self.code) IN
    CASE code = u32(UPLINK_ERROR_INTERNAL) -> "internal"
      [] code = u32(UPLINK_ERROR_CANCELED) -> "canceled"
      [] code = u32(UPLINK_ERROR_INVALID_HANDLE) -> "invalid handle"
      [] code = u32(UPLINK_ERROR_TOO_MANY_REQUESTS) -> "too many requests"
      [] code = u32(UPLINK_ERROR_BANDWIDTH_LIMIT_EXCEEDED) -> "bandwidth limit exceeded"
      [] code = u32(UPLINK_ERROR_BUCKET_NAME_INVALID) -> "invalid bucket name"
      [] code = u32(UPLINK_ERROR_BUCKET_ALREADY_EXISTS) -> "bucket already exists"
      [] code = u32(UPLINK_ERROR_BUCKET_NOT_EMPTY) -> "bucket not empty"
      [] code = u32(UPLINK_ERROR_BUCKET_NOT_FOUND) -> "bucket not found"
      [] code = u32(UPLINK_ERROR_OBJECT_KEY_INVALID) -> "invalid object key"
      [] code = u32(UPLINK_ERROR_OBJECT_NOT_FOUND) -> "object not found"
      [] code = u32(UPLINK_ERROR_UPLOAD_DONE) -> "upload done"
      [] OTHER -> "unknown"

\* The codes an Uplink error is given: the twelve of the backend, and others
\* of i32, among them negative ones, the largest and one whose low half is
\* a code of the backend.
ErrorCodes ==
    {UPLINK_ERROR_INTERNAL, UPLINK_ERROR_CANCELED, UPLINK_ERROR_INVALID_HANDLE,
     UPLINK_ERROR_TOO_MANY_REQUESTS, UPLINK_ERROR_BANDWIDTH_LIMIT_EXCEEDED,
     UPLINK_ERROR_BUCKET_NAME_INVALID, UPLINK_ERROR_BUCKET_ALREADY_EXISTS,
     UPLINK_ERROR_BUCKET_NOT_EMPTY, UPLINK_ERROR_BUCKET_NOT_FOUND,
     UPLINK_ERROR_OBJECT_KEY_INVALID, UPLINK_ERROR_OBJECT_NOT_FOUND,
     UPLINK_ERROR_UPLOAD_DONE}
    \cup {0, 1, 7, 35, 65538, 2147483647, -1, -2, -19, -2147483647}

\* The details an Uplink error holds
ErrorDetails == StrsUpTo({97, 47}, MaxLen)

\* The record of a call self.message() on an Uplink { code, details }
MessageCall(code, details) ==
    LET self == [code |-> code, details |-> details] IN
    [op |-> "Uplink::message", self |-> self, result |-> Uplink_message(self)]

\* self.message()
UplinkMessage ==
    /\ \E code \in ErrorCodes, details \in ErrorDetails :
        ret' = MessageCall(code, details)
    /\ UNCHANGED <<perm, panicked, grants, heap, buckets>>

InitError ==
    /\ perm = Permission_new
    /\ \E code \in ErrorCodes, details \in ErrorDetails :
        ret = MessageCall(code, details)
    /\ panicked = FALSE
    /\ grants = {}
    /\ heap = <<>>
    /\ buckets = {}

NextError == UplinkMessage

SpecError == InitError /\ [][NextError]_vars

----------------------------------------------------------------------------
(* Properties of error::Uplink, checked under SpecError *)

KnownCodes ==
    {UPLINK_ERROR_INTERNAL, UPLINK_ERROR_CANCELED, UPLINK_ERROR_INVALID_HANDLE,
     UPLINK_ERROR_TOO_MANY_REQUESTS, UPLINK_ERROR_BANDWIDTH_LIMIT_EXCEEDED,
     UPLINK_ERROR_BUCKET_NAME_INVALID, UPLINK_ERROR_BUCKET_ALREADY_EXISTS,
     UPLINK_ERROR_BUCKET_NOT_EMPTY, UPLINK_ERROR_BUCKET_NOT_FOUND,
     UPLINK_ERROR_OBJECT_KEY_INVALID, UPLINK_ERROR_OBJECT_NOT_FOUND,
     UPLINK_ERROR_UPLOAD_DONE}

\* C21: of any two calls of message(), those on the same code return the
\* same label whatever the details; those on two different codes of the
\* backend's twelve return different labels, neither of them "unknown"; and
\* a call on any other code, a negative one included, returns "unknown".
C21_MessageFromCode ==
    [][LET a == ret.self.code
           b == ret'.self.code
       IN
       /\ a = b => ret'.result = ret.result
       /\ b \in KnownCodes => ret'.result # "unknown"
       /\ b \notin KnownCodes => ret'.result = "unknown"
       /\ ({a, b} \subseteq KnownCodes /\ a # b) => ret'.result # ret.result]_vars

C21_Witness ==
    /\ ret.op = "Uplink::message"
    /\ ret.self.code < 0
    /\ ret.self.details # <<>>
    /\ ret.result = "unknown"

----------------------------------------------------------------------------
(* Bucket, and the release of what the backend returns *)

\* Error::new_internal_with_inner -> Error::Internal(Internal { ctx_msg, inner })
new_internal_with_inner(ctx_msg, berr) ==
    [kind |-> "Internal", ctx_msg |-> ctx_msg, inner |-> Some(berr)]

\* Every UplinkBucket the backend may point at: its name null, the C string
\* "a" or one byte that is not UTF-8; its created a Unix time, not negative
\* in the model, so that `created as u64` is the same number.
UplinkBuckets ==
    [name : {null, ptr(<<97>>), ptr(<<255>>)}, created : 0..MaxSecs]

\* The *mut UplinkBucket given to from_uplink_c: null, or a descriptor the
\* backend has returned, numbered id.
bucket_ptr(shape, id) ==
    IF is_null(shape)
    THEN null
    ELSE ptr([id |-> id, name |-> deref(shape).name, created |-> deref(shape).created])

BucketNameNull == "invalid underlying c-binding returned invalid UplinkBucket; name field is NULL"

\* Ensurer for UplinkBucket
UplinkBucket_ensure(self) ==
    IF ~(~is_null(self.name)) THEN Panic(BucketNameNull) ELSE Ok(self)

\* Bucket::from_uplink_c(uc_bucket)
Bucket_from_uplink_c(uc_bucket) ==
    IF is_null(uc_bucket)
    THEN Err(new_invalid_arguments("uc_bucket", "cannot be null"))
    ELSE LET ensured == UplinkBucket_ensure(deref(uc_bucket)) IN
         IF ensured.tag = "Panic"
         THEN ensured
         ELSE LET name == CStr_to_str(deref(deref(uc_bucket).name)) IN
              IF name.tag = "Err"
              THEN Err(new_internal_with_inner(
                        "invalid bucket name because it contains invalid UTF-8 characters",
                        name.err))
              ELSE Ok([inner |-> uc_bucket,
                       name |-> name.val,
                       created_at |-> Duration_new(deref(uc_bucket).created, 0)])

\* Drop for Bucket: uplink_free_bucket(self.inner)
Bucket_drop(self, h) == free(h, deref(self.inner).id)

\* Bucket::from_uplink_c(uc_bucket), on what the backend has just returned
BucketFromUplinkC ==
    /\ ~panicked
    /\ Len(heap) < MaxAllocs
    /\ \E shape \in {null} \cup {ptr(b) : b \in UplinkBuckets} :
        LET uc_bucket == bucket_ptr(shape, Len(heap) + 1)
            r == Bucket_from_uplink_c(uc_bucket)
        IN
        /\ ret' = [op |-> "Bucket::from_uplink_c", args |-> <<uc_bucket>>,
                   ffi |-> None, result |-> r]
        /\ panicked' = (r.tag = "Panic")
        /\ heap' = hand_over(heap, "UplinkBucket", uc_bucket, null)
        /\ buckets' = IF r.tag = "Ok" THEN buckets \cup {r.val} ELSE buckets
    /\ UNCHANGED <<perm, grants>>

\* A Bucket goes out of scope, at the end of its block or while a panic
\* unwinds: drop(&mut self)
DropBucket ==
    /\ \E self \in buckets :
        /\ buckets' = buckets \ {self}
        /\ heap' = Bucket_drop(self, heap)
        /\ ret' = [op |-> "Bucket::drop", self |-> self, args |-> <<>>,
                   ffi |-> None, result |-> Ok(Unit)]
    /\ UNCHANGED <<perm, panicked, grants>>

\* The client owns an Access, as in InitGrant.
InitRelease == InitGrant

NextRelease ==
    \/ AccessNew
    \/ RequestAccessWithPassphrase
    \/ Share
    \/ BucketFromUplinkC
    \/ DropAccess
    \/ DropBucket

SpecRelease == InitRelease /\ [][NextRelease]_vars

----------------------------------------------------------------------------
(* Properties of the failure paths, checked under SpecRelease *)

\* C24: when a constructor or share has received a result whose error slot
\* is populated, it returns no Access and the result it received has been
\* freed once; and when Bucket::from_uplink_c has rejected a descriptor
\* that is not null, that descriptor has been freed once.
C24_FailureReleasesResult ==
    /\ (/\ ret.op \in TextOps \cup {"Access::share"}
        /\ ret.ffi # <<>>
        /\ ret.ffi[1].error # <<>>) =>
            /\ ret.result.tag # "Ok"
            /\ heap[Len(heap)].frees = 1
    /\ (/\ ret.op = "Bucket::from_uplink_c"
        /\ ret.args[1] # <<>>
        /\ ret.result.tag = "Err") =>
            heap[ret.args[1][1].id].frees = 1
====
